---- MODULE Spec2Model ----
(***************************************************************************)
(* A model of bu_script.py: the BackupPaths class (validation of the       *)
(* target list and of the source groups, size accounting, the capacity     *)
(* check and the copy step) over an explicit model of the filesystem.      *)
(*                                                                         *)
(* A path is the sequence of its components, the drive first for an        *)
(* absolute path: "D:\bk" is <<"D:", "bk">>.  The filesystem is a function *)
(* from the paths that exist to "DIR" or to the content of a regular file. *)
(***************************************************************************)
EXTENDS Integers, Sequences, FiniteSets, TLC

VARIABLES
    targets,      \* self.__targets: the stored target list
    elems,        \* self.__elems_to_backup: the stored groups, in dict order
    backup_size,  \* self.__backup_size
    problems,     \* self.problems
    exc,          \* the exception the last call ended with, "none" if it returned
    fs,           \* the filesystem
    free,         \* free bytes of each volume (shutil.disk_usage)
    readonly,     \* the target roots that refuse every write (PermissionError)
    ops,          \* the filesystem calls the last make_backup or copy issued
    runs          \* how many times make_backup (or the copy step) has run

vars == <<targets, elems, backup_size, problems, exc, fs, free, readonly, ops, runs>>

(***************************************************************************)
(* Bounds of the model.                                                    *)
(***************************************************************************)
MaxLen == 2      \* longest path list given to a setter
MaxStale == 1    \* setters are explored while the report holds at most this many validation offenders
MaxFree == 4     \* largest number of free bytes of a volume
MaxRuns == 2     \* make_backup (or the copy step) is run at most this many times

(***************************************************************************)
(* The filesystem the program runs against.                                *)
(***************************************************************************)
DIR == "DIR"

FileA == <<"C:", "s", "a">>          \* a regular file
FileA2 == <<"C:", "u", "a">>         \* another regular file with the same base name
DirD == <<"C:", "s", "d">>           \* a directory holding a file and a subdirectory
FileD2 == <<"C:", "u", "d">>         \* a regular file with the base name of DirD
Missing1 == <<"C:", "nx1">>          \* absolute, does not exist
Missing2 == <<"C:", "nx2">>          \* absolute, does not exist
Relative == <<"rel">>                \* not absolute (and does not exist)
RootD == <<"D:", "bk">>              \* the target roots, each on a volume of its own
RootE == <<"E:", "bk">>

Drives == {"C:", "D:", "E:"}
Roots == {RootD, RootE}

BaseFS ==
    ( <<"C:", "s">> :> DIR ) @@ ( FileA :> "a1" ) @@
    ( <<"C:", "u">> :> DIR ) @@ ( FileA2 :> "a2" ) @@ ( FileD2 :> "ud" ) @@
    ( DirD :> DIR ) @@ ( DirD \o <<"a">> :> "da" ) @@
    ( DirD \o <<"n">> :> DIR ) @@ ( DirD \o <<"n", "x">> :> "nx" ) @@
    ( RootD :> DIR ) @@ ( RootE :> DIR )

\* The byte length of a regular file, by its content.
ContentLen(c) ==
    CASE c = "a1" -> 2
      [] c = "a2" -> 3
      [] c = "ud" -> 1
      [] c = "da" -> 4
      [] c = "nx" -> 2
      [] OTHER -> 1

\* st_size of a directory: its own metadata, not its contents.
DirStSize == 1

Exists(f, p) == p \in DOMAIN f
IsDir(f, p) == p \in DOMAIN f /\ f[p] = DIR
IsFile(f, p) == p \in DOMAIN f /\ f[p] # DIR
Parent(p) == SubSeq(p, 1, Len(p) - 1)
BaseName(p) == p[Len(p)]
IsAbs(p) == Len(p) > 0 /\ p[1] \in Drives
StSize(f, p) == IF f[p] = DIR THEN DirStSize ELSE ContentLen(f[p])

(***************************************************************************)
(* Python values.  An element of a path list is a string (a path) or not;  *)
(* the value given for a list is a list or something else.                 *)
(***************************************************************************)
Str(p) == [ty |-> "str", path |-> p]
NonStr == [ty |-> "int", path |-> <<"5">>]
IsStr(e) == e.ty = "str"

PyList(s) == [kind |-> "list", items |-> s, n |-> 0]
PyNone == [kind |-> "NoneType", items |-> <<>>, n |-> 0]
PyInt(i) == [kind |-> "int", items |-> <<>>, n |-> i]
PyDict(k) == [kind |-> "dict", items |-> <<>>, n |-> k]   \* a mapping of k keys

\* bool(v)
Truthy(v) ==
    CASE v.kind = "list" -> Len(v.items) > 0
      [] v.kind = "NoneType" -> FALSE
      [] OTHER -> v.n # 0

IsList(v) == v.kind = "list"

NoProblems ==
    [nonstr_paths |-> <<>>, nonabs_paths |-> <<>>,
     nonexistent_paths |-> <<>>, failed_targets |-> <<>>]

(***************************************************************************)
(* BackupPaths.__validate_path_list: the report and the exception it ends  *)
(* with.  The offenders are appended to the lists of the report, which are *)
(* never cleared, and each test reads the whole list of the report.        *)
(***************************************************************************)
NotStrElem(e) == ~IsStr(e)
NotAbsElem(e) == ~IsAbs(e.path)

Raise(pr, e) == [problems |-> pr, exc |-> e]

ScanNonStr(pr, items) ==
    [pr EXCEPT !.nonstr_paths = @ \o SelectSeq(items, NotStrElem)]

\* Mutant of ScanPaths: the existence scan stops at the first path that does not exist.
ScanPathsFirstMissing(pr, items, f) ==
    LET Absent(e) == ~Exists(f, e.path)
        missing == SelectSeq(items, Absent)
    IN  [pr EXCEPT !.nonabs_paths = @ \o SelectSeq(items, NotAbsElem),
                   !.nonexistent_paths = @ \o (IF missing = <<>> THEN <<>> ELSE <<missing[1]>>)]

ScanPaths(pr, items, f) ==
    LET Absent(e) == ~Exists(f, e.path)
    IN  [pr EXCEPT !.nonabs_paths = @ \o SelectSeq(items, NotAbsElem),
                   !.nonexistent_paths = @ \o SelectSeq(items, Absent)]

ValidatePathList(pr, path_list, f) ==
    IF ~Truthy(path_list) THEN Raise(pr, "NoBackupError")
    ELSE IF ~IsList(path_list) THEN Raise(pr, "YamlListError")
    ELSE LET p1 == ScanNonStr(pr, path_list.items)
         IN  IF p1.nonstr_paths # <<>> THEN Raise(p1, "TypeError")
             ELSE LET p2 == ScanPaths(p1, path_list.items, f)
                  IN  IF p2.nonabs_paths # <<>> THEN Raise(p2, "ValueError")
                      ELSE IF p2.nonexistent_paths # <<>>
                           THEN Raise(p2, "FileNotFoundError")
                           ELSE Raise(p2, "none")

(***************************************************************************)
(* The paths setter: every group is validated in dict order, the first     *)
(* exception ends the call; then the size is computed and the groups are   *)
(* stored.  A dict is the sequence of its items, [key, value].             *)
(***************************************************************************)
RECURSIVE ValidateGroups(_, _, _, _)
ValidateGroups(pr, to_backup, i, f) ==
    IF i > Len(to_backup) THEN Raise(pr, "none")
    ELSE LET r == ValidatePathList(pr, to_backup[i].value, f)
         IN  IF r.exc # "none" THEN r
             ELSE ValidateGroups(r.problems, to_backup, i + 1, f)

RECURSIVE SumSizes(_, _, _)
SumSizes(items, i, f) ==
    IF i > Len(items) THEN 0
    ELSE StSize(f, items[i].path) + SumSizes(items, i + 1, f)

\* Mutant of CalcBackupSize: `size =` in place of `size +=`, the last group's sum.
CalcBackupSizeLastGroup(to_backup, i, f) ==
    IF to_backup = <<>> THEN 0
    ELSE SumSizes(to_backup[Len(to_backup)].value.items, 1, f)

RECURSIVE CalcBackupSize(_, _, _)
CalcBackupSize(to_backup, i, f) ==
    IF i > Len(to_backup) THEN 0
    ELSE SumSizes(to_backup[i].value.items, 1, f) + CalcBackupSize(to_backup, i + 1, f)

\* Mutant of PathsSetter: the groups are stored before they are validated.
PathsSetterStoresFirst(pr, to_backup, f, old_elems, old_size) ==
    IF to_backup = <<>>
    THEN [problems |-> pr, exc |-> "NoBackupError", elems |-> old_elems, size |-> old_size]
    ELSE LET r == ValidateGroups(pr, to_backup, 1, f)
         IN  IF r.exc # "none"
             THEN [problems |-> r.problems, exc |-> r.exc,
                   elems |-> to_backup, size |-> old_size]
             ELSE [problems |-> r.problems, exc |-> "none",
                   elems |-> to_backup, size |-> CalcBackupSize(to_backup, 1, f)]

\* The outcome of `bp.paths = to_backup`: the report, the exception, and what is stored.
PathsSetter(pr, to_backup, f, old_elems, old_size) ==
    IF to_backup = <<>>
    THEN [problems |-> pr, exc |-> "NoBackupError", elems |-> old_elems, size |-> old_size]
    ELSE LET r == ValidateGroups(pr, to_backup, 1, f)
         IN  IF r.exc # "none"
             THEN [problems |-> r.problems, exc |-> r.exc,
                   elems |-> old_elems, size |-> old_size]
             ELSE [problems |-> r.problems, exc |-> "none",
                   elems |-> to_backup, size |-> CalcBackupSize(to_backup, 1, f)]

\* The outcome of `bp.target = path_list`.
TargetSetter(pr, path_list, f, old_targets) ==
    LET r == ValidatePathList(pr, path_list, f)
    IN  [problems |-> r.problems, exc |-> r.exc,
         targets |-> IF r.exc = "none" THEN path_list.items ELSE old_targets]

(***************************************************************************)
(* The values the setters are given.                                       *)
(***************************************************************************)
SeqsUpTo(S, n) == UNION {[1..k -> S] : k \in 0..n}

NonLists == {PyNone, PyInt(0), PyInt(7), PyDict(0), PyDict(1)}

TargetElems == {Str(RootD), Str(Missing1), Str(Missing2), Str(Relative), NonStr}
SourceElems == {Str(FileA), Str(DirD), Str(Missing1), NonStr}

TargetInputs == {PyList(s) : s \in SeqsUpTo(TargetElems, MaxLen)} \cup NonLists
GroupInputs == {PyList(s) : s \in SeqsUpTo(SourceElems, MaxLen)} \cup NonLists

GroupKeys == <<"g1", "g2">>

DictOf(vals) == [i \in 1..Len(vals) |-> [key |-> GroupKeys[i], value |-> vals[i]]]
DictInputs == {DictOf(vals) : vals \in SeqsUpTo(GroupInputs, Len(GroupKeys))}

StaleCount(pr) ==
    Len(pr.nonstr_paths) + Len(pr.nonabs_paths) + Len(pr.nonexistent_paths)

(***************************************************************************)
(* The object after construction, and the two setters.                     *)
(***************************************************************************)
Init ==
    /\ targets = <<>>
    /\ elems = <<>>
    /\ backup_size = 0
    /\ problems = NoProblems
    /\ exc = "none"
    /\ fs = BaseFS
    /\ free = [v \in Drives |-> 0]
    /\ readonly = {}
    /\ ops = {}
    /\ runs = 0

SetTarget(path_list) ==
    /\ StaleCount(problems) <= MaxStale
    /\ LET r == TargetSetter(problems, path_list, fs, targets)
       IN  /\ problems' = r.problems
           /\ exc' = r.exc
           /\ targets' = r.targets
    /\ UNCHANGED <<elems, backup_size, fs, free, readonly, ops, runs>>

SetPaths(to_backup) ==
    /\ StaleCount(problems) <= MaxStale
    /\ LET r == PathsSetter(problems, to_backup, fs, elems, backup_size)
       IN  /\ problems' = r.problems
           /\ exc' = r.exc
           /\ elems' = r.elems
           /\ backup_size' = r.size
    /\ UNCHANGED <<targets, fs, free, readonly, ops, runs>>

NextConfig ==
    \/ \E path_list \in TargetInputs : SetTarget(path_list)
    \/ \E to_backup \in DictInputs : SetPaths(to_backup)

SpecConfig == Init /\ [][NextConfig]_vars

(***************************************************************************)
(* Filesystem calls.  A call threads the record [fs, ops, err, failed]:    *)
(* the filesystem, the calls issued so far, the pending exception ("none"  *)
(* if none: a raised exception ends everything that follows), and the      *)
(* failed_targets list.  ro is the set of target roots that refuse writes. *)
(***************************************************************************)
RootOf(p) == SubSeq(p, 1, 2)
Writable(ro, p) == RootOf(p) \notin ro
Put(f, p, v) == [q \in DOMAIN f \cup {p} |-> IF q = p THEN v ELSE f[q]]
Logged(st, op, p) == [st EXCEPT !.ops = @ \cup {<<op, p>>}]
Failed(st, e) == [st EXCEPT !.err = e]
NoParentError(f, p) ==
    IF Exists(f, Parent(p)) THEN "NotADirectoryError" ELSE "FileNotFoundError"

\* os.mkdir(p)
OsMkdir(st, ro, p) ==
    IF st.err # "none" THEN st
    ELSE LET s1 == Logged(st, "mkdir", p)
         IN  IF Exists(s1.fs, p) THEN Failed(s1, "FileExistsError")
             ELSE IF ~IsDir(s1.fs, Parent(p)) THEN Failed(s1, NoParentError(s1.fs, p))
             ELSE IF ~Writable(ro, p) THEN Failed(s1, "PermissionError")
             ELSE [s1 EXCEPT !.fs = Put(@, p, DIR)]

\* shutil.copy2(src, dst): into dst when dst is a directory, else onto dst.
Copy2(st, ro, src, dst) ==
    IF st.err # "none" THEN st
    ELSE LET s1 == Logged(st, "copy2", dst)
             d == IF IsDir(s1.fs, dst) THEN dst \o <<BaseName(src)>> ELSE dst
         IN  IF ~IsFile(s1.fs, src) THEN Failed(s1, "FileNotFoundError")
             ELSE IF IsDir(s1.fs, d) THEN Failed(s1, "IsADirectoryError")
             ELSE IF ~IsDir(s1.fs, Parent(d)) THEN Failed(s1, NoParentError(s1.fs, d))
             ELSE IF ~Writable(ro, d) THEN Failed(s1, "PermissionError")
             ELSE [s1 EXCEPT !.fs = Put(@, d, s1.fs[src])]

ChildNames(f, dir) ==
    {p[Len(dir) + 1] : p \in {q \in DOMAIN f : Len(q) = Len(dir) + 1
                                               /\ SubSeq(q, 1, Len(dir)) = dir}}

\* shutil.copytree(src, dst, dirs_exist_ok=True): dst is made if absent, every entry
\* of src is copied (a directory by a nested copytree, a file by copy2), the errors of
\* the entries are collected, and Error is raised at the end if there were any.
RECURSIVE CopyTree(_, _, _, _)
RECURSIVE CopyEntries(_, _, _, _, _, _)
CopyEntries(st, ro, src, dst, names, errors) ==
    IF names = {} THEN (IF errors THEN Failed(st, "Error") ELSE st)
    ELSE LET n == CHOOSE x \in names : TRUE
             r == IF IsDir(st.fs, src \o <<n>>)
                  THEN CopyTree(st, ro, src \o <<n>>, dst \o <<n>>)
                  ELSE Copy2(st, ro, src \o <<n>>, dst \o <<n>>)
         IN  CopyEntries(Failed(r, "none"), ro, src, dst, names \ {n},
                         errors \/ r.err # "none")

CopyTree(st, ro, src, dst) ==
    IF st.err # "none" THEN st
    ELSE LET s1 == Logged(st, "copytree", dst)
         IN  IF ~IsDir(s1.fs, src) THEN Failed(s1, "FileNotFoundError")
             ELSE IF IsFile(s1.fs, dst) THEN Failed(s1, "FileExistsError")
             ELSE IF ~Exists(s1.fs, dst) /\ ~IsDir(s1.fs, Parent(dst))
                  THEN Failed(s1, NoParentError(s1.fs, dst))
             ELSE IF ~Exists(s1.fs, dst) /\ ~Writable(ro, dst)
                  THEN Failed(s1, "PermissionError")
             ELSE CopyEntries([s1 EXCEPT !.fs = Put(@, dst, DIR)], ro, src, dst,
                              ChildNames(s1.fs, src), FALSE)

(***************************************************************************)
(* BackupPaths.__make_backup_subdir and BackupPaths.__copy_to_subdir.      *)
(***************************************************************************)
JoinPath(dir, name) == dir \o <<name>>

MakeBackupSubdir(st, ro, name, root_dir) ==
    IF st.err # "none" THEN st
    ELSE IF ~Exists(st.fs, JoinPath(root_dir, name))
         THEN OsMkdir(st, ro, JoinPath(root_dir, name))
         ELSE st

CopyOne(st, ro, subdir, path) ==
    IF IsFile(st.fs, path) THEN Copy2(st, ro, path, subdir)
    ELSE LET destination == JoinPath(subdir, BaseName(path))
             s1 == IF ~Exists(st.fs, destination)
                   THEN OsMkdir(st, ro, destination)
                   ELSE st
         IN  CopyTree(s1, ro, path, destination)

RECURSIVE CopyToSubdir(_, _, _, _, _)
CopyToSubdir(st, ro, subdir, pathlist, i) ==
    IF i > Len(pathlist) \/ st.err # "none" THEN st
    ELSE CopyToSubdir(CopyOne(st, ro, subdir, pathlist[i].path), ro, subdir, pathlist, i + 1)

(***************************************************************************)
(* BackupPaths.make_backup.                                                *)
(***************************************************************************)
\* directory[:2]: the drive of an absolute path.
Prefix2(directory) == directory[1]

CalcFreeMemory(fr, directory) == fr[Prefix2(directory)]

RECURSIVE CopyGroups(_, _, _, _, _)
CopyGroups(st, ro, dir, groups, i) ==
    IF i > Len(groups) \/ st.err # "none" THEN st
    ELSE LET s1 == MakeBackupSubdir(st, ro, groups[i].key, dir)
             s2 == CopyToSubdir(s1, ro, JoinPath(dir, groups[i].key),
                                groups[i].value.items, 1)
         IN  CopyGroups(s2, ro, dir, groups, i + 1)

\* Mutant of HasNoCapacity: the comparison made strict, so free == required is accepted.
HasNoCapacityStrict(free_mem, size) == free_mem < size

HasNoCapacity(free_mem, size) == free_mem <= size

BackupOne(st, ro, fr, size, groups, dir_) ==
    LET s1 == Logged(st, "disk_usage", dir_.path)
    IN  IF HasNoCapacity(CalcFreeMemory(fr, dir_.path), size)
        THEN [s1 EXCEPT !.failed = Append(@, dir_)]
        ELSE CopyGroups(s1, ro, dir_.path, groups, 1)

\* Mutant of BackupTargets: `break` in place of `continue` after a failed target.
RECURSIVE BackupTargetsBreak(_, _, _, _, _, _, _)
BackupTargetsBreak(st, ro, fr, size, groups, tgts, i) ==
    IF i > Len(tgts) \/ st.err # "none" THEN st
    ELSE LET r == BackupOne(st, ro, fr, size, groups, tgts[i])
         IN  IF r.failed # st.failed THEN r
             ELSE BackupTargetsBreak(r, ro, fr, size, groups, tgts, i + 1)

RECURSIVE BackupTargets(_, _, _, _, _, _, _)
BackupTargets(st, ro, fr, size, groups, tgts, i) ==
    IF i > Len(tgts) \/ st.err # "none" THEN st
    ELSE BackupTargets(BackupOne(st, ro, fr, size, groups, tgts[i]),
                       ro, fr, size, groups, tgts, i + 1)

MakeBackup ==
    /\ runs < MaxRuns
    /\ LET st == [fs |-> fs, ops |-> {}, err |-> "none", failed |-> problems.failed_targets]
           r == BackupTargets(st, readonly, free, backup_size, elems, targets, 1)
       IN  /\ fs' = r.fs
           /\ ops' = r.ops
           /\ exc' = r.err
           /\ problems' = [problems EXCEPT !.failed_targets = r.failed]
    /\ runs' = runs + 1
    /\ UNCHANGED <<targets, elems, backup_size, free, readonly>>

NextBackup == MakeBackup

(***************************************************************************)
(* SpecBackup: make_backup on a configured object.  The object is the one  *)
(* main() builds: constructed, the target list assigned, then the groups,  *)
(* both accepted; the environment (free space of the volumes, the roots    *)
(* that refuse writes) is any.                                             *)
(***************************************************************************)
RootLists == {PyList(s) : s \in SeqsUpTo({Str(r) : r \in Roots}, MaxLen)}
Volumes == {Prefix2(r) : r \in Roots}
FreeSpaces == {[v \in Drives |-> IF v \in Volumes THEN g[v] ELSE 0] : g \in [Volumes -> 0..MaxFree]}

InitBackup ==
    \E path_list \in RootLists, to_backup \in DictInputs :
        LET t == TargetSetter(NoProblems, path_list, BaseFS, <<>>)
            p == PathsSetter(t.problems, to_backup, BaseFS, <<>>, 0)
        IN  /\ t.exc = "none"
            /\ p.exc = "none"
            /\ targets = t.targets
            /\ elems = p.elems
            /\ backup_size = p.size
            /\ problems = p.problems
            /\ exc = "none"
            /\ fs = BaseFS
            /\ free \in FreeSpaces
            /\ readonly \in {{}} \cup {{r} : r \in Roots}
            /\ ops = {}
            /\ runs = 0

SpecBackup == InitBackup /\ [][NextBackup]_vars

(***************************************************************************)
(* SpecCopy: the copy of one group to one target whose subtree already     *)
(* holds entries: of the group (older copies, or entries of another type)  *)
(* and of its own.  The object is configured as main() does, with one      *)
(* target and one group, and the volume has room.                          *)
(***************************************************************************)
CopySources == {Str(FileA), Str(FileA2), Str(DirD), Str(FileD2)}
CopyLists == {PyList(s) : s \in SeqsUpTo(CopySources, MaxLen)}

GroupDir == JoinPath(RootD, GroupKeys[1])

\* The entries a target may hold before the copy, each with the types it may have.
DestChoices ==
    ( GroupDir :> {"absent", DIR, "old"} ) @@
    ( GroupDir \o <<"a">> :> {"absent", DIR, "old"} ) @@
    ( GroupDir \o <<"x">> :> {"absent", "old"} ) @@
    ( GroupDir \o <<"d">> :> {"absent", DIR, "old"} ) @@
    ( GroupDir \o <<"d", "a">> :> {"absent", DIR, "old"} ) @@
    ( GroupDir \o <<"d", "a", "a">> :> {"absent", "old"} ) @@
    ( GroupDir \o <<"d", "y">> :> {"absent", "old"} ) @@
    ( GroupDir \o <<"d", "n">> :> {"absent", DIR, "old"} ) @@
    ( GroupDir \o <<"d", "n", "x">> :> {"absent", "old"} )

\* A choice is a tree: an entry that exists lies in a directory that exists.
IsTree(c) ==
    \A p \in DOMAIN c :
        c[p] # "absent" /\ Parent(p) \in DOMAIN c => c[Parent(p)] = DIR

DestTrees ==
    {c \in [DOMAIN DestChoices -> {"absent", DIR, "old"}] :
        (\A p \in DOMAIN c : c[p] \in DestChoices[p]) /\ IsTree(c)}

WithDest(f, c) ==
    [p \in DOMAIN f \cup {q \in DOMAIN c : c[q] # "absent"} |->
        IF p \in DOMAIN c /\ c[p] # "absent" THEN c[p] ELSE f[p]]

InitCopy ==
    \E path_list \in CopyLists, c \in DestTrees :
        LET t == TargetSetter(NoProblems, PyList(<<Str(RootD)>>), BaseFS, <<>>)
            p == PathsSetter(t.problems, DictOf(<<path_list>>), BaseFS, <<>>, 0)
        IN  /\ p.exc = "none"
            /\ targets = t.targets
            /\ elems = p.elems
            /\ backup_size = p.size
            /\ problems = p.problems
            /\ exc = "none"
            /\ fs = WithDest(BaseFS, c)
            /\ free = [v \in Drives |-> p.size + 1]
            /\ readonly = {}
            /\ ops = {}
            /\ runs = 0

SpecCopy == InitCopy /\ [][NextBackup]_vars

(***************************************************************************)
(* What the claims speak of.                                               *)
(***************************************************************************)
Range(s) == {s[i] : i \in DOMAIN s}
Under(dir, p) == Len(p) > Len(dir) /\ SubSeq(p, 1, Len(dir)) = dir

\* The place in subdir of the entry q of the source src (src itself, or below it).
ImageOf(subdir, src, q) == subdir \o SubSeq(q, Len(src), Len(q))
SourceEntries(f, src) == {q \in DOMAIN f : q = src \/ Under(src, q)}

\* subdir holds the source src: every entry of it, with the same type and content.
HoldsCopy(f, subdir, src) ==
    \A q \in SourceEntries(f, src) :
        /\ ImageOf(subdir, src, q) \in DOMAIN f
        /\ f[ImageOf(subdir, src, q)] = f[q]

GroupCopied(f, root, g) ==
    /\ IsDir(f, JoinPath(root, g.key))
    /\ \A i \in DOMAIN g.value.items :
           HoldsCopy(f, JoinPath(root, g.key), g.value.items[i].path)

FullyCopied(root) == \A i \in DOMAIN elems : GroupCopied(fs, root, elems[i])

\* The target's volume has too little room for the stored size.
Insufficient(t) == ~(free[t.path[1]] > backup_size)

\* The directory creations and copies the last make_backup issued against a root.
WriteOps(root) == {o \in ops : o[1] # "disk_usage" /\ Under(root, o[2])}

(***************************************************************************)
(* C1.  Failure isolation: when make_backup returns, for a target A with   *)
(* too little free space and a target B with enough, in either order, B    *)
(* holds a subdirectory for every group with every source path copied, A   *)
(* is in failed_targets, and nothing was created or copied under A.        *)
(***************************************************************************)
C1_FailureIsolation ==
    (runs > 0 /\ exc = "none") =>
        \A a \in Range(targets), b \in Range(targets) :
            (Insufficient(a) /\ ~Insufficient(b)) =>
                /\ FullyCopied(b.path)
                /\ a \in Range(problems.failed_targets)
                /\ WriteOps(a.path) = {}
                /\ ChildNames(fs, a.path) = {}

C1_Witness ==
    /\ runs > 0 /\ exc = "none"
    /\ Len(targets) = 2 /\ Len(elems) = 2
    /\ Insufficient(targets[1]) /\ ~Insufficient(targets[2])
    /\ targets[1] \in Range(problems.failed_targets)
    /\ FullyCopied(targets[2].path)
    /\ WriteOps(targets[2].path) # {}

(***************************************************************************)
(* C2.  The capacity check is strict: a target whose capacity was checked  *)
(* is copied to, and not recorded in failed_targets, exactly when the free *)
(* bytes exceed the required bytes; free == required is rejected and       *)
(* required == free - 1 is accepted.                                       *)
(***************************************************************************)
C2_StrictCapacity ==
    runs > 0 =>
        \A r \in Roots :
            <<"disk_usage", r>> \in ops =>
                /\ (free[r[1]] > backup_size) <=> (WriteOps(r) # {})
                /\ (free[r[1]] > backup_size) <=> (Str(r) \notin Range(problems.failed_targets))

C2_Witness ==
    /\ runs > 0 /\ exc = "none"
    /\ \E a \in Range(targets), b \in Range(targets) :
           /\ free[a.path[1]] = backup_size
           /\ a \in Range(problems.failed_targets)
           /\ WriteOps(a.path) = {}
           /\ backup_size = free[b.path[1]] - 1
           /\ b \notin Range(problems.failed_targets)
           /\ FullyCopied(b.path)

(***************************************************************************)
(* C4.  A copy failure (an exception of a directory creation or of a copy) *)
(* on one target ends that target only: every other target with enough     *)
(* free space still receives every group.                                  *)
(***************************************************************************)
C4_CopyFailureIsolated ==
    (runs > 0 /\ exc # "none") =>
        \A t \in Range(targets) :
            (~Insufficient(t) /\ t.path \notin readonly) => FullyCopied(t.path)

(***************************************************************************)
(* C7.  make_backup is idempotent on the object: with the free space and   *)
(* the sources unchanged, a second call leaves the targets, the groups,    *)
(* the required size and the problem report as the first call left them.   *)
(***************************************************************************)
C7_MakeBackupIdempotent ==
    [][(runs >= 1 /\ runs' = runs + 1 /\ free' = free) =>
          /\ targets' = targets
          /\ elems' = elems
          /\ backup_size' = backup_size
          /\ problems' = problems]_vars

(***************************************************************************)
(* C8.  Copying one group to one target is idempotent: for unchanged       *)
(* sources a second copy leaves the target's subtree as the first left it, *)
(* and the entries that exist only at the target are untouched by both.    *)
(***************************************************************************)
\* The places of the target the group's sources are copied to.
SourceImages ==
    {GroupDir} \cup
    UNION {{ImageOf(GroupDir, elems[1].value.items[i].path, q) :
                q \in SourceEntries(BaseFS, elems[1].value.items[i].path)} :
           i \in DOMAIN elems[1].value.items}

DestOnly(p) == Under(RootD, p) /\ p \notin SourceImages

C8_SecondCopyChangesNothing ==
    [][(runs >= 1 /\ runs' = runs + 1) => fs' = fs]_vars

C8_CopyGroupIdempotent ==
    [][(runs' = runs + 1) =>
          /\ (runs >= 1 => fs' = fs)
          /\ \A p \in DOMAIN fs :
                 DestOnly(p) => (p \in DOMAIN fs' /\ fs'[p] = fs[p])]_vars

(***************************************************************************)
(* The setters' claims are stated of every value a setter may be given in  *)
(* a reachable state of the object.                                        *)
(***************************************************************************)
ValidationInputs == TargetInputs \cup GroupInputs

\* The elements of a list that are strings naming no existing path.
MissingElems(v) == {e \in Range(v.items) : IsStr(e) /\ ~Exists(fs, e.path)}
HasMissing(v) == IsList(v) /\ MissingElems(v) # {}
HasNonStr(v) == \E e \in Range(v.items) : ~IsStr(e)
HasNonAbs(v) == \E e \in Range(v.items) : ~IsAbs(e.path)

\* A non-empty list of strings naming absolute existing paths.
IsValidList(v) ==
    /\ IsList(v)
    /\ v.items # <<>>
    /\ \A e \in Range(v.items) : IsStr(e) /\ IsAbs(e.path) /\ Exists(fs, e.path)

(***************************************************************************)
(* C3 as stated: validating a list with at least one non-existent path     *)
(* fails with FileNotFoundError, nonexistent_paths then holding every      *)
(* non-existent path of the list.                                          *)
(***************************************************************************)
C3_MissingPathIsFileNotFound ==
    \A v \in ValidationInputs :
        HasMissing(v) =>
            LET r == ValidatePathList(problems, v, fs)
            IN  /\ r.exc = "FileNotFoundError"
                /\ MissingElems(v) \subseteq Range(r.problems.nonexistent_paths)

(***************************************************************************)
(* C3 amended: validating a list with at least one non-existent path       *)
(* fails.  With TypeError if the list holds a non-string or nonstr_paths   *)
(* already holds one (the paths are then not scanned); otherwise           *)
(* nonexistent_paths holds every non-existent path of the list and the     *)
(* error is ValueError if the list or nonabs_paths holds a non-absolute    *)
(* path, FileNotFoundError if not.                                         *)
(***************************************************************************)
C3_MissingPathsAllReported ==
    \A v \in ValidationInputs :
        HasMissing(v) =>
            LET r == ValidatePathList(problems, v, fs)
            IN  IF HasNonStr(v) \/ problems.nonstr_paths # <<>>
                THEN r.exc = "TypeError"
                ELSE /\ MissingElems(v) \subseteq Range(r.problems.nonexistent_paths)
                     /\ r.exc = IF HasNonAbs(v) \/ problems.nonabs_paths # <<>>
                                THEN "ValueError"
                                ELSE "FileNotFoundError"

C3_Witness ==
    /\ exc = "FileNotFoundError"
    /\ {Str(Missing1), Str(Missing2)} \subseteq Range(problems.nonexistent_paths)
    /\ problems.nonabs_paths = <<>>
    /\ problems.nonstr_paths = <<>>

(***************************************************************************)
(* C5 as stated: assigning groups of which one has an empty list fails     *)
(* with NoBackupError, the stored size and groups unchanged.               *)
(***************************************************************************)
HasEmptyGroup(d) == \E i \in DOMAIN d : d[i].value = PyList(<<>>)

C5_EmptyGroupIsNoBackupError ==
    \A d \in DictInputs :
        HasEmptyGroup(d) =>
            LET r == PathsSetter(problems, d, fs, elems, backup_size)
            IN  /\ r.exc = "NoBackupError"
                /\ r.elems = elems
                /\ r.size = backup_size

(***************************************************************************)
(* C5 amended: assigning groups of which one has an empty list fails, the  *)
(* stored size and groups unchanged; the error is that of the first group, *)
(* in dict order, that fails validation: NoBackupError when no group       *)
(* before the empty one fails.                                             *)
(***************************************************************************)
GroupFails(d, i) == ValidatePathList(problems, d[i].value, fs).exc # "none"
FirstFailing(d) ==
    CHOOSE i \in DOMAIN d : GroupFails(d, i) /\ \A j \in 1..(i - 1) : ~GroupFails(d, j)
FirstEmpty(d) ==
    CHOOSE i \in DOMAIN d :
        d[i].value = PyList(<<>>) /\ \A j \in 1..(i - 1) : d[j].value # PyList(<<>>)

C5_EmptyGroupFailsBeforeSizing ==
    \A d \in DictInputs :
        HasEmptyGroup(d) =>
            LET r == PathsSetter(problems, d, fs, elems, backup_size)
            IN  /\ r.exc # "none"
                /\ r.elems = elems
                /\ r.size = backup_size
                /\ r.exc = ValidatePathList(problems, d[FirstFailing(d)].value, fs).exc
                /\ (FirstFailing(d) = FirstEmpty(d) => r.exc = "NoBackupError")

C5_Witness ==
    /\ exc = "NoBackupError"
    /\ Len(elems) = 2
    /\ backup_size > 0
    /\ StaleCount(problems) = 0

(***************************************************************************)
(* C6.  In every reachable state the stored size is the sum of the sizes   *)
(* of the top-level paths of the stored groups, each counted as often as   *)
(* it is listed: a file by its byte length, a directory by its own         *)
(* st_size; so it does not depend on how the paths are split in groups or  *)
(* ordered.                                                                *)
(***************************************************************************)
StoredPositions ==
    UNION {{<<i, j>> : j \in DOMAIN elems[i].value.items} : i \in DOMAIN elems}
Occurrences(p) ==
    Cardinality({x \in StoredPositions : elems[x[1]].value.items[x[2]].path = p})

RECURSIVE SizeOfPaths(_)
SizeOfPaths(paths) ==
    IF paths = {} THEN 0
    ELSE LET p == CHOOSE q \in paths : TRUE
         IN  Occurrences(p) * (IF fs[p] = DIR THEN DirStSize ELSE ContentLen(fs[p]))
             + SizeOfPaths(paths \ {p})

C6_SizeMatchesStoredGroups ==
    /\ \A x \in StoredPositions : elems[x[1]].value.items[x[2]].path \in DOMAIN fs
    /\ backup_size = SizeOfPaths(DOMAIN fs)

C6_Witness ==
    /\ Len(elems) = 2
    /\ exc = "FileNotFoundError"
    /\ Occurrences(FileA) = 2
    /\ Occurrences(DirD) = 1
    /\ backup_size = 5

(***************************************************************************)
(* C9.  A value that is not a list fails validation with YamlListError,    *)
(* and NoBackupError is raised only for a list with no elements.           *)
(***************************************************************************)
C9_NonListIsYamlListError ==
    \A v \in ValidationInputs :
        LET r == ValidatePathList(problems, v, fs)
        IN  /\ ~IsList(v) => r.exc = "YamlListError"
            /\ r.exc = "NoBackupError" => (IsList(v) /\ v.items = <<>>)

(***************************************************************************)
(* C10.  Validation depends on the list and the filesystem only: after any *)
(* earlier assignments, failed ones included, assigning a non-empty list   *)
(* of strings naming absolute existing paths succeeds, stores the value    *)
(* and adds nothing to problems.                                           *)
(***************************************************************************)
C10_ValidListAlwaysAccepted ==
    /\ \A v \in TargetInputs :
           IsValidList(v) =>
               LET r == TargetSetter(problems, v, fs, targets)
               IN  r.exc = "none" /\ r.targets = v.items /\ r.problems = problems
    /\ \A d \in DictInputs :
           (d # <<>> /\ \A i \in DOMAIN d : IsValidList(d[i].value)) =>
               LET r == PathsSetter(problems, d, fs, elems, backup_size)
               IN  r.exc = "none" /\ r.elems = d /\ r.problems = problems

====
